---- MODULE Spec2Model ----
\* composer/optim/decoupled_weight_decay.py: the decoupled-weight-decay
\* optimizers DecoupledSGDW and DecoupledAdamW (step, sgdw, adamw) and the
\* distributed reduction of DecoupledAdamW's per-parameter metrics
\* (report_per_parameter_metrics, pre_reduce_metrics, dist_reduce_metrics).
EXTENDS Integers, Sequences, FiniteSets, TLC

VARIABLES
    \* ---- optimizer ----
    kind,           \* "sgdw" | "adamw": the class that was constructed
    param_groups,   \* self.param_groups: sequence of group records
    param,          \* the tensors p, by parameter id
    grad,           \* p.grad, by parameter id
    requires_grad,  \* p.requires_grad, by parameter id
    state,          \* self.state, by parameter id
    outcome,        \* how the last step() call ended: "none" | "returned" | "raised"
    calls,          \* number of step() calls made
    \* ---- metric reduction ----
    world_size,     \* dist.get_world_size()
    layer,          \* name of the parameter the metrics are reported for
    shard,          \* by worker and vector name: the worker's shard of that vector
    collected,      \* by worker: the metric values as report_per_parameter_metrics left them
    order,          \* by worker: the keys of optimizer_metrics in insertion order
    metrics,        \* by worker: optimizer_metrics, key -> value
    pc,             \* by worker: "collected" | "pre_reduced" | "all_reduce" | "post" | "done"
    idx,            \* by worker: position of dist_reduce_metrics' loop in the record
    reduced,        \* by worker: the local variable reduced
    n_all_reduce,   \* by worker: dist.all_reduce calls issued
    n_get_world_size \* by worker: dist.get_world_size calls issued

optVars == <<kind, param_groups, param, grad, requires_grad, state, outcome, calls>>
metVars == <<world_size, layer, shard, collected, order, metrics, pc, idx, reduced,
             n_all_reduce, n_get_world_size>>
vars == <<kind, param_groups, param, grad, requires_grad, state, outcome, calls,
          world_size, layer, shard, collected, order, metrics, pc, idx, reduced,
          n_all_reduce, n_get_world_size>>

-----------------------------------------------------------------------------
\* Bounds of the model.

\* Tensor elements are fixed-point numbers: the integer x stands for x / SCALE,
\* and every arithmetic operation rounds its result down to that grid.
SCALE == 4
\* Number of elements of every parameter tensor.
Dim == 1
\* Number of step() calls in a behaviour.
MaxSteps == 2

-----------------------------------------------------------------------------
\* Fixed-point arithmetic on tensor elements and hyperparameters.

One == SCALE
Half == SCALE \div 2
Quarter == SCALE \div 4

FxMul(a, b) == (a * b) \div SCALE
\* b > 0 wherever the code divides (bias corrections, denom, initial_lr).
FxDiv(a, b) == (a * SCALE) \div b

RECURSIVE FxPow(_, _)
FxPow(b, n) == IF n = 0 THEN One ELSE FxMul(b, FxPow(b, n - 1))

RECURSIVE ISqrtFrom(_, _)
ISqrtFrom(x, k) == IF (k + 1) * (k + 1) > x THEN k ELSE ISqrtFrom(x, k + 1)
\* sqrt of a non-negative fixed-point number, rounded down to the grid.
FxSqrt(a) == ISqrtFrom(a * SCALE, 0)

MaxOf(a, b) == IF a >= b THEN a ELSE b

Elems == 1 .. Dim
ZerosLike == [i \in Elems |-> 0]
TScale(t, c) == [i \in Elems |-> FxMul(t[i], c)]
\* t + alpha * u, the tensor add_(u, alpha=alpha)
TAxpy(t, u, alpha) == [i \in Elems |-> t[i] + FxMul(alpha, u[i])]

-----------------------------------------------------------------------------
\* Parameters, gradients and per-parameter optimizer state.

Params == {1, 2}
\* params passed as one group, or as two groups of one parameter each.
GroupLayouts == {<< <<1, 2>> >>, << <<1>>, <<2>> >>}

\* the tensors the model starts from
InitialParam == [p \in Params |-> [i \in Elems |-> IF p = 1 THEN One ELSE -Half]]
GradElemVals == {-Half, 2 * One}
NoGrad == [kind |-> "none", val |-> ZerosLike]
DenseGrads == {[kind |-> "dense", val |-> t] : t \in [Elems -> GradElemVals]}
SparseGrads == {[kind |-> "sparse", val |-> [i \in Elems |-> One]]}
\* what backward() / zero_grad() can leave in p.grad
GradChoices == IF kind = "adamw" THEN {NoGrad} \cup DenseGrads \cup SparseGrads
               ELSE {NoGrad} \cup DenseGrads

\* every parameter trainable, or parameter 2 frozen (DecoupledSGDW.step never
\* reads requires_grad)
RequiresGradChoices == IF kind = "adamw"
                       THEN {[p \in Params |-> TRUE], [p \in Params |-> p # 2]}
                       ELSE {[p \in Params |-> TRUE]}

LrVals == {0, Half, One}
WdVals == {0, Quarter}

\* self.state[p] absent (the defaultdict holds no entry for p)
AdamNoState == [present |-> FALSE, step |-> 0, exp_avg |-> ZerosLike,
                exp_avg_sq |-> ZerosLike, has_max |-> FALSE,
                max_exp_avg_sq |-> ZerosLike]
SgdNoState == [present |-> FALSE, has_buf |-> FALSE, momentum_buffer |-> ZerosLike]

\* Momentum settings torch.optim.SGD's constructor accepts
\* (nesterov needs momentum > 0 and dampening = 0).
SgdOptions == {[momentum |-> 0, dampening |-> 0, nesterov |-> FALSE],
               [momentum |-> Half, dampening |-> 0, nesterov |-> FALSE],
               [momentum |-> Half, dampening |-> Half, nesterov |-> FALSE],
               [momentum |-> Half, dampening |-> 0, nesterov |-> TRUE]}

\* DecoupledSGDW.__init__: every group gets initial_lr = lr.
SgdwInit(layout, lr, wd, o) ==
    [g \in 1 .. Len(layout) |->
        [params |-> layout[g], lr |-> lr, initial_lr |-> lr, weight_decay |-> wd,
         momentum |-> o.momentum, dampening |-> o.dampening, nesterov |-> o.nesterov]]

\* DecoupledAdamW.__init__: every group gets initial_lr = lr.
AdamwInit(layout, lr, wd, amsgrad) ==
    [g \in 1 .. Len(layout) |->
        [params |-> layout[g], lr |-> lr, initial_lr |-> lr, weight_decay |-> wd,
         amsgrad |-> amsgrad, beta1 |-> Half, beta2 |-> 3 * Quarter, eps |-> 1]]

-----------------------------------------------------------------------------
\* The decoupled decay shared by sgdw and adamw.

\* C6 mutant: the decay coupled to the learning rate, as in torch.optim.AdamW.
C6_DecayFactorCoupled(lr, initial_lr) == lr

\* decay_factor = (lr / initial_lr) if initial_lr else 1.0
DecayFactor(lr, initial_lr) == IF initial_lr # 0 THEN FxDiv(lr, initial_lr) ELSE One

\* if weight_decay != 0: param.mul_(1 - decay_factor * weight_decay)
DecayParam(p, g) ==
    IF g.weight_decay # 0
    THEN TScale(p, One - FxMul(DecayFactor(g.lr, g.initial_lr), g.weight_decay))
    ELSE p

-----------------------------------------------------------------------------
\* DecoupledSGDW.

\* The momentum buffer after one parameter's iteration of sgdw; has_buf FALSE
\* is the None slot of momentum_buffer_list.
SgdwBuffer(s, d_p, g) ==
    IF g.momentum = 0 THEN [has_buf |-> s.has_buf, momentum_buffer |-> s.momentum_buffer]
    ELSE IF ~s.has_buf THEN [has_buf |-> TRUE, momentum_buffer |-> d_p]
    ELSE [has_buf |-> TRUE,
          momentum_buffer |-> TAxpy(TScale(s.momentum_buffer, g.momentum), d_p,
                                    One - g.dampening)]

\* The descent direction d_p that sgdw applies, given the updated buffer.
SgdwDirection(buf, d_p, g) ==
    IF g.momentum = 0 THEN d_p
    ELSE IF g.nesterov THEN TAxpy(d_p, buf.momentum_buffer, g.momentum)
    ELSE buf.momentum_buffer

\* One parameter's iteration of sgdw: the new tensor and buffer slot.
SgdwParam(p, d_p, s, g) ==
    LET buf == SgdwBuffer(s, d_p, g)
        dir == SgdwDirection(buf, d_p, g)
    IN  [param |-> TAxpy(DecayParam(p, g), dir, -g.lr),
         state |-> [present |-> TRUE, has_buf |-> buf.has_buf,
                    momentum_buffer |-> buf.momentum_buffer]]

\* C7 mutant: every parameter of the group, with or without a gradient.
C7_SgdwWithGradAll(g) == g.params

\* The parameters of a group that step() hands to sgdw.
SgdwWithGrad(g) == SelectSeq(g.params, LAMBDA p : grad[p].kind # "none")

RECURSIVE SgdwGroup(_, _, _, _)
\* sgdw over params_with_grad, then the write-back of the momentum buffers.
SgdwGroup(ps, i, g, acc) ==
    IF i > Len(ps) THEN acc
    ELSE LET p == ps[i]
             r == SgdwParam(acc.param[p], grad[p].val, acc.state[p], g)
         IN  SgdwGroup(ps, i + 1, g,
                       [param |-> [acc.param EXCEPT ![p] = r.param],
                        state |-> [acc.state EXCEPT ![p] = r.state]])

RECURSIVE SgdwGroups(_, _)
SgdwGroups(gi, acc) ==
    IF gi > Len(param_groups) THEN acc
    ELSE LET g == param_groups[gi]
         IN  SgdwGroups(gi + 1, SgdwGroup(SgdwWithGrad(g), 1, g, acc))

\* DecoupledSGDW.step(), called without a closure.
SGDWStep ==
    /\ kind = "sgdw"
    /\ calls < MaxSteps
    /\ LET r == SgdwGroups(1, [param |-> param, state |-> state])
       IN  /\ param' = r.param
           /\ state' = r.state
    /\ outcome' = "returned"
    /\ calls' = calls + 1
    /\ UNCHANGED <<kind, param_groups, grad, requires_grad>>
    /\ UNCHANGED metVars

-----------------------------------------------------------------------------
\* DecoupledAdamW.

\* State initialization on first sight of a parameter.
AdamInitState(amsgrad) ==
    [present |-> TRUE, step |-> 0, exp_avg |-> ZerosLike, exp_avg_sq |-> ZerosLike,
     has_max |-> amsgrad, max_exp_avg_sq |-> ZerosLike]

RECURSIVE AdamwCollect(_, _, _, _)
\* The loop over group['params'] in step(): creates missing state, increments
\* state['step'], and stops at the first sparse gradient.
AdamwCollect(g, i, st, acc) ==
    IF i > Len(g.params) THEN [state |-> st, params_with_grad |-> acc, raised |-> FALSE]
    ELSE LET p == g.params[i]
         IN  IF grad[p].kind = "none" \/ ~requires_grad[p]
             THEN AdamwCollect(g, i + 1, st, acc)
             ELSE IF grad[p].kind = "sparse"
             THEN [state |-> st, params_with_grad |-> Append(acc, p), raised |-> TRUE]
             ELSE LET s0 == IF st[p].present THEN st[p] ELSE AdamInitState(g.amsgrad)
                      s1 == [s0 EXCEPT !.step = @ + 1]
                  IN  AdamwCollect(g, i + 1, [st EXCEPT ![p] = s1], Append(acc, p))

\* exp_avg_sq.mul_(beta2).addcmul_(grad, grad, value=1 - beta2)
AdamwExpAvgSq(v, gr, g) ==
    [i \in Elems |-> FxMul(v[i], g.beta2) + FxMul(One - g.beta2, FxMul(gr[i], gr[i]))]

\* C8 mutant: the current second moment overwrites the maximum.
C8_MaxOverwritten(vmax, v) == v

\* torch.maximum(max_exp_avg_sqs[i], exp_avg_sq, out=max_exp_avg_sqs[i])
AdamwMaxExpAvgSq(vmax, v) == [i \in Elems |-> MaxOf(vmax[i], v[i])]

\* The moments of one parameter after its iteration of adamw; s.step is the
\* step count step() has already incremented.
AdamwMoments(gr, s, g) ==
    LET exp_avg_sq == AdamwExpAvgSq(s.exp_avg_sq, gr, g)
    IN  [s EXCEPT !.exp_avg = TAxpy(TScale(s.exp_avg, g.beta1), gr, One - g.beta1),
                  !.exp_avg_sq = exp_avg_sq,
                  !.max_exp_avg_sq = IF g.amsgrad
                                     THEN AdamwMaxExpAvgSq(s.max_exp_avg_sq, exp_avg_sq)
                                     ELSE s.max_exp_avg_sq]

\* -step_size * exp_avg / denom, the tensor addcdiv_ adds to the parameter;
\* s holds the updated moments.
AdamwUpdate(s, g) ==
    LET bias_correction1 == One - FxPow(g.beta1, s.step)
        bias_correction2 == One - FxPow(g.beta2, s.step)
        root == IF g.amsgrad THEN s.max_exp_avg_sq ELSE s.exp_avg_sq
        denom == [i \in Elems |->
                    FxDiv(FxSqrt(root[i]), FxSqrt(bias_correction2)) + g.eps]
        step_size == FxDiv(g.lr, bias_correction1)
    IN  [i \in Elems |-> FxMul(-step_size, FxDiv(s.exp_avg[i], denom[i]))]

\* One parameter's iteration of adamw: decay, moments, then the update.
AdamwParam(p, gr, s, g) ==
    LET decayed == DecayParam(p, g)
        s1 == AdamwMoments(gr, s, g)
        upd == AdamwUpdate(s1, g)
    IN  [param |-> [i \in Elems |-> decayed[i] + upd[i]], state |-> s1]

RECURSIVE Adamw(_, _, _, _)
\* adamw over params_with_grad; the state tensors are updated in place.
Adamw(ps, i, g, acc) ==
    IF i > Len(ps) THEN acc
    ELSE LET p == ps[i]
             r == AdamwParam(acc.param[p], grad[p].val, acc.state[p], g)
         IN  Adamw(ps, i + 1, g,
                   [param |-> [acc.param EXCEPT ![p] = r.param],
                    state |-> [acc.state EXCEPT ![p] = r.state]])

RECURSIVE AdamwGroups(_, _)
\* The loop over self.param_groups in step(): the RuntimeError leaves the loop
\* with everything done so far in place.
AdamwGroups(gi, acc) ==
    IF gi > Len(param_groups) THEN [param |-> acc.param, state |-> acc.state, raised |-> FALSE]
    ELSE LET g == param_groups[gi]
             c == AdamwCollect(g, 1, acc.state, <<>>)
         IN  IF c.raised
             THEN [param |-> acc.param, state |-> c.state, raised |-> TRUE]
             ELSE AdamwGroups(gi + 1,
                              Adamw(c.params_with_grad, 1, g,
                                    [param |-> acc.param, state |-> c.state]))

\* DecoupledAdamW.step(), called without a closure.
AdamWStep ==
    /\ kind = "adamw"
    /\ calls < MaxSteps
    /\ LET r == AdamwGroups(1, [param |-> param, state |-> state])
       IN  /\ param' = r.param
           /\ state' = r.state
           /\ outcome' = IF r.raised THEN "raised" ELSE "returned"
    /\ calls' = calls + 1
    /\ UNCHANGED <<kind, param_groups, grad, requires_grad>>
    /\ UNCHANGED metVars

-----------------------------------------------------------------------------
\* The training loop around the optimizer.

\* No metrics are being reduced.
NoMetrics ==
    /\ world_size = 0
    /\ layer = <<>>
    /\ shard = <<>>
    /\ collected = <<>>
    /\ order = <<>>
    /\ metrics = <<>>
    /\ pc = <<>>
    /\ idx = <<>>
    /\ reduced = <<>>
    /\ n_all_reduce = <<>>
    /\ n_get_world_size = <<>>

\* loss.backward() / optimizer.zero_grad(): p.grad of every parameter is set.
Backward ==
    /\ calls < MaxSteps
    /\ \E gs \in [Params -> GradChoices] : grad' = gs
    /\ UNCHANGED <<kind, param_groups, param, requires_grad, state, outcome, calls>>
    /\ UNCHANGED metVars

\* A learning-rate scheduler assigns group['lr'] of every group.
SetLr ==
    /\ calls < MaxSteps
    /\ \E lr \in LrVals :
          /\ \E gi \in 1 .. Len(param_groups) : param_groups[gi].lr # lr
          /\ param_groups' = [gi \in 1 .. Len(param_groups) |->
                                [param_groups[gi] EXCEPT !.lr = lr]]
    /\ UNCHANGED <<kind, param, grad, requires_grad, state, outcome, calls>>
    /\ UNCHANGED metVars

InitOptim ==
    /\ kind \in {"sgdw", "adamw"}
    /\ \E layout \in GroupLayouts, lr \in LrVals, wd \in WdVals :
          \/ /\ kind = "sgdw"
             /\ \E o \in SgdOptions : param_groups = SgdwInit(layout, lr, wd, o)
             /\ state = [p \in Params |-> SgdNoState]
          \/ /\ kind = "adamw"
             /\ \E amsgrad \in BOOLEAN : param_groups = AdamwInit(layout, lr, wd, amsgrad)
             /\ state = [p \in Params |-> AdamNoState]
    /\ param = InitialParam
    /\ grad = [p \in Params |-> NoGrad]
    /\ requires_grad \in RequiresGradChoices
    /\ outcome = "none"
    /\ calls = 0
    /\ NoMetrics

NextOptim == SGDWStep \/ AdamWStep \/ Backward \/ SetLr

SpecOptim == InitOptim /\ [][NextOptim]_vars

-----------------------------------------------------------------------------
\* Exact arithmetic for the metric values.
\*
\* A metric value is the real number (n / d) * sqrt(r), held in normal form:
\* d > 0, gcd(n, d) = 1, r square-free, and zero is 0/1*sqrt(1).  Norms of
\* integer vectors, their squares, products and quotients stay in this form.
\* d = 0 marks the values outside it: NaN (0/0), the two infinities (x/0), and
\* OutOfDomain, a real number the form cannot hold.

\* Largest coordinate magnitude of the first-moment shards.
MaxCoord == 4
\* Number of elements each worker holds of a vector.
ShardLen == 1
\* Largest number of workers.
MaxWorkers == 2

Abs(x) == IF x < 0 THEN -x ELSE x

RECURSIVE Gcd(_, _)
Gcd(a, b) == IF b = 0 THEN a ELSE Gcd(b, a % b)

RECURSIVE SquarePartFrom(_, _, _)
SquarePartFrom(r, k, best) ==
    IF k * k > r THEN best
    ELSE SquarePartFrom(r, k + 1, IF r % (k * k) = 0 THEN k ELSE best)
\* the largest k with k * k dividing r
SquarePart(r) == SquarePartFrom(r, 2, 1)

NaN == [n |-> 0, d |-> 0, r |-> 0]
PosInf == [n |-> 1, d |-> 0, r |-> 0]
NegInf == [n |-> -1, d |-> 0, r |-> 0]
OutOfDomain == [n |-> 0, d |-> 0, r |-> 1]
Zero == [n |-> 0, d |-> 1, r |-> 1]

IsFinite(a) == a.d > 0

\* (n / d) * sqrt(r) in normal form, for d > 0 and r >= 0
Real(n, d, r) ==
    IF n = 0 \/ r = 0 THEN Zero
    ELSE LET k == SquarePart(r)
             n1 == n * k
             g == Gcd(Abs(n1), d)
         IN  [n |-> n1 \div g, d |-> d \div g, r |-> r \div (k * k)]

FromInt(k) == Real(k, 1, 1)

Sign(a) == IF a.n > 0 THEN 1 ELSE IF a.n < 0 THEN -1 ELSE 0

\* What an operation with an operand outside the normal form returns.
Special(a, b) == IF a = OutOfDomain \/ b = OutOfDomain THEN OutOfDomain ELSE NaN

IsInf(a) == a = PosInf \/ a = NegInf

Mul(a, b) ==
    IF IsFinite(a) /\ IsFinite(b) THEN Real(a.n * b.n, a.d * b.d, a.r * b.r)
    ELSE IF (IsInf(a) \/ IsFinite(a)) /\ (IsInf(b) \/ IsFinite(b)) /\ a.n # 0 /\ b.n # 0
    THEN (IF Sign(a) * Sign(b) > 0 THEN PosInf ELSE NegInf)
    ELSE Special(a, b)

\* tensor / float: x / 0 is an infinity and 0 / 0 is nan, nothing is raised
Div(a, b) ==
    IF IsFinite(a) /\ IsFinite(b)
    THEN IF b.n # 0
         THEN Mul(a, Real(Sign(b) * b.d, Abs(b.n) * b.r, b.r))
         ELSE IF a.n = 0 THEN NaN ELSE IF a.n > 0 THEN PosInf ELSE NegInf
    ELSE IF IsFinite(a) /\ IsInf(b) THEN Zero
    ELSE IF IsInf(a) /\ IsFinite(b)
    THEN (IF Sign(a) * (IF b.n < 0 THEN -1 ELSE 1) > 0 THEN PosInf ELSE NegInf)
    ELSE Special(a, b)

Add(a, b) ==
    IF IsFinite(a) /\ IsFinite(b)
    THEN IF a.n = 0 THEN b
         ELSE IF b.n = 0 THEN a
         ELSE IF a.r = b.r THEN Real(a.n * b.d + b.n * a.d, a.d * b.d, a.r)
         ELSE OutOfDomain
    ELSE IF IsInf(a) /\ (IsFinite(b) \/ b = a) THEN a
    ELSE IF IsInf(b) /\ IsFinite(a) THEN b
    ELSE Special(a, b)

\* math.sqrt / Tensor.sqrt of a value that is not negative
Sqrt(a) ==
    IF IsFinite(a)
    THEN IF a.r = 1 THEN Real(1, a.d, a.n * a.d) ELSE OutOfDomain
    ELSE IF a = PosInf THEN PosInf
    ELSE Special(a, a)

\* C3 mutant: the norm is summed without being squared.
C3_NotSquared(a) == a

\* x ** 2
Square(a) == Mul(a, a)

RECURSIVE SumSeq(_, _)
\* the sum of f[1] .. f[k]
SumSeq(f, k) == IF k = 0 THEN Zero ELSE Add(SumSeq(f, k - 1), f[k])

-----------------------------------------------------------------------------
\* Metric keys.  A key is a string, held as the sequence of its pieces: the
\* separators "/" and "_" and the words between them ("l2_norm" is one word).

Slash == "/"
Underscore == "_"

StartsWith(key, word) == Len(key) >= 1 /\ key[1] = word
\* word in key
Contains(key, word) == \E i \in 1 .. Len(key) : key[i] = word

RECURSIVE SplitFrom(_, _, _, _)
SplitFrom(str, sep, i, cur) ==
    IF i > Len(str) THEN <<cur>>
    ELSE IF str[i] = sep THEN <<cur>> \o SplitFrom(str, sep, i + 1, <<>>)
    ELSE SplitFrom(str, sep, i + 1, Append(cur, str[i]))
\* str.split(sep)
Split(str, sep) == SplitFrom(str, sep, 1, <<>>)

\* f'{metric}/{name}'
MetricKey(metric, name) == metric \o <<Slash>> \o name

\* f'l2_norm/{A}/{layer}'
NormKey(vector, name) == <<"l2_norm", Slash>> \o vector \o <<Slash>> \o name

\* _, vectors, layer = metric.split('/'); A, B = vectors.split('_')
CosineA(key) == Split(Split(key, Slash)[2], Underscore)[1]
CosineB(key) == Split(Split(key, Slash)[2], Underscore)[2]
CosineLayer(key) == Split(key, Slash)[3]

\* Parameter names: a plain one, and one that has "l2_norm" in it.
LayerNames == {<<"fc">>, <<"l2_norm", Underscore, "head">>}

-----------------------------------------------------------------------------
\* The Metric Collector: metric_functions and report_per_parameter_metrics.

Workers == 1 .. world_size
Coords == 1 .. ShardLen
\* shards of exp_avg and of param.grad
MomentShards == [Coords -> 0 .. MaxCoord]
GradShards == [Coords -> -1 .. 1]

SumSquares(v) == SumSeq([i \in Coords |-> FromInt(v[i] * v[i])], ShardLen)
DotProduct(u, v) == SumSeq([i \in Coords |-> FromInt(u[i] * v[i])], ShardLen)

\* torch.linalg.vector_norm
VectorNorm(v) == Sqrt(SumSquares(v))

\* torch.nn.functional.cosine_similarity(u, v, dim=0): the denominator is
\* clamped away from zero, so a zero vector gives 0
CosineSimilarity(u, v) ==
    IF VectorNorm(u).n = 0 \/ VectorNorm(v).n = 0 THEN Zero
    ELSE Div(DotProduct(u, v), Mul(VectorNorm(u), VectorNorm(v)))

\* The catalogue entries modelled, in the order metric_functions lists them.
MetricNames == << <<"l2_norm", Slash, "moment">>,
                  <<"l2_norm", Slash, "grad">>,
                  <<"cosine", Slash, "moment", Underscore, "grad">> >>

\* A metric of another family, which the reduction averages.
MeanKey(name) == MetricKey(<<"mean", Slash, "grad">>, name)

\* The keys report_per_parameter_metrics inserts for one parameter, in order.
ReportKeys(name) == [i \in 1 .. Len(MetricNames) |-> MetricKey(MetricNames[i], name)]

\* The keys of a metric record for one parameter.
RecordKeys(name) == {ReportKeys(name)[i] : i \in 1 .. Len(MetricNames)} \cup {MeanKey(name)}

\* The values report_per_parameter_metrics computes from a worker's shards.
ReportValues(name, sh) ==
    [k \in RecordKeys(name) |->
        IF k = MetricKey(MetricNames[1], name) THEN VectorNorm(sh.moment)
        ELSE IF k = MetricKey(MetricNames[2], name) THEN VectorNorm(sh.grad)
        ELSE IF k = MetricKey(MetricNames[3], name) THEN CosineSimilarity(sh.grad, sh.moment)
        ELSE DotProduct(sh.grad, [i \in Coords |-> 1])]

\* Every insertion order of a set of keys.
Orders(keys) ==
    {o \in [1 .. Cardinality(keys) -> keys] :
        \A i, j \in 1 .. Cardinality(keys) : i # j => o[i] # o[j]}

-----------------------------------------------------------------------------
\* pre_reduce_metrics.

\* key=lambda metric: 0 if 'l2_norm' in metric else 1
PreSortKey(key) == IF Contains(key, "l2_norm") THEN 0 ELSE 1

\* sorted(optimizer_metrics.keys(), key=...): the sort is stable.
PreVisitOrder(keys) ==
    SelectSeq(keys, LAMBDA k : PreSortKey(k) = 0) \o
    SelectSeq(keys, LAMBDA k : PreSortKey(k) = 1)

\* C2 mutant: the local cosine is reduced as it is, not turned into a dot product.
C2_PreReduceKeyNormsOnly(key, m) ==
    IF StartsWith(key, "l2_norm") THEN [m EXCEPT ![key] = Mul(m[key], m[key])] ELSE m

\* One iteration of pre_reduce_metrics' loop.
PreReduceKey(key, m) ==
    IF StartsWith(key, "l2_norm") THEN [m EXCEPT ![key] = Square(m[key])]
    ELSE IF StartsWith(key, "cosine")
    THEN LET A_rank_subset_norm == Sqrt(m[NormKey(CosineA(key), CosineLayer(key))])
             B_rank_subset_norm == Sqrt(m[NormKey(CosineB(key), CosineLayer(key))])
         IN  [m EXCEPT ![key] = Mul(m[key], Mul(A_rank_subset_norm, B_rank_subset_norm))]
    ELSE m

RECURSIVE PreReduceLoop(_, _, _)
PreReduceLoop(visit, i, m) ==
    IF i > Len(visit) THEN m
    ELSE PreReduceLoop(visit, i + 1, PreReduceKey(visit[i], m))

pre_reduce_metrics(keys, m) == PreReduceLoop(PreVisitOrder(keys), 1, m)

PreReduce(w) ==
    /\ pc[w] = "collected"
    /\ metrics' = [metrics EXCEPT ![w] = pre_reduce_metrics(order[w], metrics[w])]
    /\ pc' = [pc EXCEPT ![w] = "pre_reduced"]
    /\ UNCHANGED <<world_size, layer, shard, collected, order, idx, reduced,
                   n_all_reduce, n_get_world_size>>
    /\ UNCHANGED optVars

-----------------------------------------------------------------------------
\* dist_reduce_metrics.  Its loop visits the record in insertion order; each
\* iteration reads reduced, asks for the world size, and with more than one
\* worker blocks in dist.all_reduce until every worker has made the call.

\* Worker w starts the iteration for the key at position i.
BeginKey(w, i) ==
    /\ idx' = [idx EXCEPT ![w] = i]
    /\ reduced' = [reduced EXCEPT ![w] = metrics[w][order[w][i]]]
    /\ n_get_world_size' = [n_get_world_size EXCEPT ![w] = @ + 1]
    /\ IF world_size > 1
       THEN /\ n_all_reduce' = [n_all_reduce EXCEPT ![w] = @ + 1]
            /\ pc' = [pc EXCEPT ![w] = "all_reduce"]
       ELSE /\ n_all_reduce' = n_all_reduce
            /\ pc' = [pc EXCEPT ![w] = "post"]

\* The caller passes the pre-reduced record to dist_reduce_metrics.
DistStart(w) ==
    /\ pc[w] = "pre_reduced"
    /\ BeginKey(w, 1)
    /\ UNCHANGED <<world_size, layer, shard, collected, order, metrics>>
    /\ UNCHANGED optVars

\* dist.all_reduce(reduced, reduce_operation='SUM') completes on every worker:
\* each one's reduced becomes the sum of what the workers passed in.
AllReduce ==
    /\ world_size > 1
    /\ \A w \in Workers : pc[w] = "all_reduce"
    /\ reduced' = [w \in Workers |-> SumSeq(reduced, world_size)]
    /\ pc' = [w \in Workers |-> "post"]
    /\ UNCHANGED <<world_size, layer, shard, collected, order, metrics, idx,
                   n_all_reduce, n_get_world_size>>
    /\ UNCHANGED optVars

\* The assignment that ends an iteration, by the family of the key.
PostReduceKey(key, red, m) ==
    IF StartsWith(key, "l2_norm") THEN [m EXCEPT ![key] = Sqrt(red)]
    ELSE IF StartsWith(key, "cosine")
    THEN LET A_reduced_norm == m[NormKey(CosineA(key), CosineLayer(key))]
             B_reduced_norm == m[NormKey(CosineB(key), CosineLayer(key))]
         IN  [m EXCEPT ![key] = Div(red, Mul(A_reduced_norm, B_reduced_norm))]
    ELSE [m EXCEPT ![key] = Div(red, FromInt(world_size))]

\* C9 mutant: the average divides by a world size that is not asked for again.
C9_NoQueryForAverage(key) == 0

\* dist.get_world_size() calls made by the assignment that ends an iteration.
PostReduceQueries(key) ==
    IF StartsWith(key, "l2_norm") \/ StartsWith(key, "cosine") THEN 0 ELSE 1

\* Worker w finishes the iteration it is in and goes on to the next key, or
\* returns.
PostReduce(w) ==
    /\ pc[w] = "post"
    /\ LET key == order[w][idx[w]]
       IN  /\ metrics' = [metrics EXCEPT ![w] = PostReduceKey(key, reduced[w], metrics[w])]
           /\ IF idx[w] < Len(order[w])
              THEN /\ idx' = [idx EXCEPT ![w] = @ + 1]
                   /\ reduced' = [reduced EXCEPT ![w] = metrics'[w][order[w][idx[w] + 1]]]
                   /\ n_get_world_size' =
                         [n_get_world_size EXCEPT ![w] = @ + PostReduceQueries(key) + 1]
                   /\ IF world_size > 1
                      THEN /\ n_all_reduce' = [n_all_reduce EXCEPT ![w] = @ + 1]
                           /\ pc' = [pc EXCEPT ![w] = "all_reduce"]
                      ELSE /\ n_all_reduce' = n_all_reduce
                           /\ pc' = [pc EXCEPT ![w] = "post"]
              ELSE /\ pc' = [pc EXCEPT ![w] = "done"]
                   /\ n_get_world_size' =
                         [n_get_world_size EXCEPT ![w] = @ + PostReduceQueries(key)]
                   /\ UNCHANGED <<idx, reduced, n_all_reduce>>
    /\ UNCHANGED <<world_size, layer, shard, collected, order>>
    /\ UNCHANGED optVars

-----------------------------------------------------------------------------
\* The metric reduction of one parameter's metrics on world_size workers.

\* No optimizer step is taken while the metrics are reduced.
NoOptim ==
    /\ kind = "adamw"
    /\ param_groups = <<>>
    /\ param = <<>>
    /\ grad = <<>>
    /\ requires_grad = <<>>
    /\ state = <<>>
    /\ outcome = "none"
    /\ calls = 0

InitMetrics ==
    /\ world_size \in 1 .. MaxWorkers
    /\ layer \in LayerNames
    /\ shard \in [Workers -> [moment : MomentShards, grad : GradShards]]
    /\ collected = [w \in Workers |-> ReportValues(layer, shard[w])]
    /\ metrics = collected
    /\ \E o \in Orders(RecordKeys(layer)) : order = [w \in Workers |-> o]
    /\ pc = [w \in Workers |-> "collected"]
    /\ idx = [w \in Workers |-> 0]
    /\ reduced = [w \in Workers |-> Zero]
    /\ n_all_reduce = [w \in Workers |-> 0]
    /\ n_get_world_size = [w \in Workers |-> 0]
    /\ NoOptim

NextMetrics ==
    \/ \E w \in Workers : PreReduce(w)
    \/ \E w \in Workers : DistStart(w)
    \/ AllReduce
    \/ \E w \in Workers : PostReduce(w)

SpecMetrics == InitMetrics /\ [][NextMetrics]_vars

\* Workers that run the reduction concurrently, each on the record it built
\* itself: the records have the same keys, each in its own insertion order.
CollectiveShards ==
    [moment : {s \in MomentShards : \A i \in Coords : s[i] >= MaxCoord - 1},
     grad : {s \in GradShards : \A i \in Coords : s[i] = 1}]

InitCollective ==
    /\ world_size \in 2 .. MaxWorkers
    /\ layer \in LayerNames
    /\ shard \in [Workers -> CollectiveShards]
    /\ collected = [w \in Workers |-> ReportValues(layer, shard[w])]
    /\ metrics = collected
    /\ order \in [Workers -> Orders(RecordKeys(layer))]
    /\ pc = [w \in Workers |-> "collected"]
    /\ idx = [w \in Workers |-> 0]
    /\ reduced = [w \in Workers |-> Zero]
    /\ n_all_reduce = [w \in Workers |-> 0]
    /\ n_get_world_size = [w \in Workers |-> 0]
    /\ NoOptim

SpecCollective == InitCollective /\ [][NextMetrics]_vars

-----------------------------------------------------------------------------
\* Properties of the optimizers.

\* A transition that is one call of step().
IsStepCall == calls' = calls + 1

\* The group that holds parameter p.
GroupOf(p) ==
    param_groups[CHOOSE gi \in 1 .. Len(param_groups) :
                    \E i \in 1 .. Len(param_groups[gi].params) :
                        param_groups[gi].params[i] = p]

\* step() skips p: no gradient, or (Adam variant) not trainable.
Skipped(p) == grad[p].kind = "none" \/ (kind = "adamw" /\ ~requires_grad[p])

LeqT(a, b) == \A i \in Elems : a[i] <= b[i]

\* C1: if DecoupledAdamW.step raises the sparse-gradient error, every parameter
\* value and every per-parameter state entry of every parameter in every group
\* is the same after the call as before it.
C1_SparseErrorLeavesAllUnchanged ==
    [][(IsStepCall /\ outcome' = "raised") => (param' = param /\ state' = state)]_vars

\* C6: in sgdw and adamw, with weight_decay nonzero and lr = initial_lr, a
\* step leaves every updated parameter at the gradient step applied to
\* (1 - weight_decay) times its value before the call, whatever the gradient.
C6_DecayIsOneMinusWeightDecay ==
    [][(IsStepCall /\ outcome' = "returned") =>
         \A p \in Params :
            LET g == GroupOf(p)
                decayed == TScale(param[p], One - g.weight_decay)
            IN  (~Skipped(p) /\ g.weight_decay # 0 /\ g.lr = g.initial_lr) =>
                   IF kind = "sgdw"
                   THEN param'[p] =
                           TAxpy(decayed,
                                 SgdwDirection(SgdwBuffer(state[p], grad[p].val, g),
                                               grad[p].val, g),
                                 -g.lr)
                   ELSE param'[p] =
                           [i \in Elems |-> decayed[i] + AdamwUpdate(state'[p], g)[i]]
      ]_vars

\* C6 witness: a step has returned with nonzero weight_decay and
\* lr = initial_lr, and it updated a parameter.
C6_Witness ==
    /\ outcome = "returned"
    /\ \E p \in Params :
          /\ state[p].present
          /\ ~Skipped(p)
          /\ GroupOf(p).weight_decay # 0
          /\ GroupOf(p).lr = GroupOf(p).initial_lr
          /\ GroupOf(p).lr # 0
          /\ param[p] # InitialParam[p]

\* C7: a parameter that step() skips (no gradient, or for the Adam variant not
\* trainable) has the same value and the same optimizer state, an absent
\* entry included, after the call as before it.
C7_SkippedParameterUnchanged ==
    [][IsStepCall =>
         \A p \in Params :
            Skipped(p) => (param'[p] = param[p] /\ state'[p] = state[p])]_vars

\* C7 witness: after a step, one parameter was skipped and has no state entry
\* while another one was updated.
C7_Witness ==
    /\ calls > 0
    /\ \E p, q \in Params :
          /\ Skipped(p) /\ ~state[p].present /\ param[p] = InitialParam[p]
          /\ state[q].present /\ param[q] # InitialParam[q]

\* C8: with amsgrad, over every step() call the stored max_exp_avg_sq of a
\* parameter does not decrease in any element, and after the call it is at
\* least the stored exp_avg_sq in every element.
C8_MaxExpAvgSqMonotone ==
    [][(IsStepCall /\ kind = "adamw") =>
         \A p \in Params :
            state'[p].has_max =>
               /\ LeqT(state[p].max_exp_avg_sq, state'[p].max_exp_avg_sq)
               /\ LeqT(state'[p].exp_avg_sq, state'[p].max_exp_avg_sq)]_vars

\* C8 witness: after two updates of a parameter under amsgrad, the second
\* moment has dropped below the maximum that is kept.
C8_Witness ==
    \E p \in Params :
       /\ kind = "adamw"
       /\ state[p].has_max
       /\ state[p].step = 2
       /\ \E i \in Elems : state[p].exp_avg_sq[i] < state[p].max_exp_avg_sq[i]

-----------------------------------------------------------------------------
\* Properties of the metric reduction.

RECURSIVE ConcatShards(_, _)
\* The vector whose disjoint shards workers 1 .. k hold.
ConcatShards(vector, k) ==
    IF k = 0 THEN <<>> ELSE ConcatShards(vector, k - 1) \o shard[k][vector]

WholeVector(vector) == ConcatShards(vector, world_size)

\* The norm of a whole vector, from its elements.
WholeNorm(x) == Sqrt(SumSeq([i \in 1 .. Len(x) |-> FromInt(x[i] * x[i])], Len(x)))

\* (sum over the workers of the local dot products) / (product of the global norms)
GlobalCosine(a, b) ==
    Div(SumSeq([w \in Workers |-> DotProduct(shard[w][a], shard[w][b])], world_size),
        Mul(WholeNorm(WholeVector(a)), WholeNorm(WholeVector(b))))

\* The average over the workers of their local cosine similarities.
AverageOfLocalCosines(key) ==
    Div(SumSeq([w \in Workers |-> collected[w][key]], world_size), FromInt(world_size))

\* The position of a key in worker w's record.
PositionOf(w, key) == CHOOSE i \in 1 .. Len(order[w]) : order[w][i] = key

\* dist_reduce_metrics on worker w has finished the iteration for the key.
Finished(w, key) ==
    pc[w] = "done" \/ (pc[w] \in {"all_reduce", "post"} /\ PositionOf(w, key) < idx[w])

NormKeys == {k \in RecordKeys(layer) : StartsWith(k, "l2_norm")}
CosineKeys == {k \in RecordKeys(layer) : StartsWith(k, "cosine")}

\* The name of the vector an l2_norm key is about.
VectorOf(key) == Split(key, Slash)[2][1]

\* Worker w's record lists the two norms a cosine reads before that cosine,
\* as report_per_parameter_metrics inserts them.
NormsInsertedFirst(w) ==
    \A k \in CosineKeys :
        /\ PositionOf(w, NormKey(CosineA(k), CosineLayer(k))) < PositionOf(w, k)
        /\ PositionOf(w, NormKey(CosineB(k), CosineLayer(k))) < PositionOf(w, k)

C3_NormIsGlobalNorm ==
    \A w \in Workers : \A k \in NormKeys :
        (world_size >= 2 /\ Finished(w, k)) =>
            /\ metrics[w][k] = WholeNorm(WholeVector(VectorOf(k)))
            /\ metrics[w][k] =
                  Sqrt(SumSeq([v \in Workers |-> Square(collected[v][k])], world_size))

\* C3 witness: local norms 3 and 4 have given 5.
C3_Witness ==
    /\ world_size = 2
    /\ pc[1] = "done"
    /\ collected[1][NormKey(<<"moment">>, layer)] = FromInt(3)
    /\ collected[2][NormKey(<<"moment">>, layer)] = FromInt(4)
    /\ metrics[1][NormKey(<<"moment">>, layer)] = FromInt(5)

\* C4: pre_reduce_metrics visits every key that starts with l2_norm before any
\* key that starts with cosine, whatever the parameter name and the insertion
\* order, so each cosine is visited after the two norms it reads.
C4_NormsVisitedBeforeCosines ==
    \A w \in Workers :
        pc[w] = "pre_reduced" =>
            LET visit == PreVisitOrder(order[w])
            IN  \A i, j \in 1 .. Len(visit) :
                    (StartsWith(visit[i], "cosine") /\ StartsWith(visit[j], "l2_norm"))
                        => j < i

\* C5: with one worker no all_reduce is issued and pre_reduce_metrics followed
\* by dist_reduce_metrics returns every entry with its original value.
C5_SingleWorkerRoundTrip ==
    (world_size = 1 /\ pc[1] = "done") =>
        /\ n_all_reduce[1] = 0
        /\ \A k \in RecordKeys(layer) : metrics[1][k] = collected[1][k]

\* C9 as claimed: one invocation of dist_reduce_metrics over K keys with more
\* than one worker issues K all_reduce calls and one get_world_size call.
C9_OneWorldSizeQuery ==
    \A w \in Workers :
        (world_size > 1 /\ pc[w] = "done") =>
            /\ n_all_reduce[w] = Len(order[w])
            /\ n_get_world_size[w] = 1

\* The keys of worker w's record that are neither l2_norm nor cosine keys.
AveragedKeys(w) ==
    {i \in 1 .. Len(order[w]) :
        ~StartsWith(order[w][i], "l2_norm") /\ ~StartsWith(order[w][i], "cosine")}

\* C9, amended: one invocation of dist_reduce_metrics over K keys with more
\* than one worker issues K all_reduce calls, one per key whatever its family,
\* and one get_world_size call per key plus one more for every key that is
\* neither an l2_norm nor a cosine key.
C9_CollectiveCalls ==
    \A w \in Workers :
        (world_size > 1 /\ pc[w] = "done") =>
            /\ n_all_reduce[w] = Len(order[w])
            /\ n_get_world_size[w] = Len(order[w]) + Cardinality(AveragedKeys(w))

\* C9 witness: a worker among two has returned from dist_reduce_metrics over a
\* record with keys of all three families.
C9_Witness ==
    /\ world_size = 2
    /\ pc[1] = "done"
    /\ NormKeys # {} /\ CosineKeys # {} /\ AveragedKeys(1) # {}
    /\ n_all_reduce[1] = 4
    /\ n_get_world_size[1] = 5

\* C10: when dist_reduce_metrics is about to divide a cosine entry, the two
\* l2_norm entries it reads hold the global norms of their vectors, whatever
\* the insertion order of the record.
C10_NormsFinalWhenCosineDivided ==
    \A w \in Workers :
        (pc[w] = "post" /\ StartsWith(order[w][idx[w]], "cosine")) =>
            LET k == order[w][idx[w]]
            IN  /\ metrics[w][NormKey(CosineA(k), CosineLayer(k))] =
                      WholeNorm(WholeVector(CosineA(k)[1]))
                /\ metrics[w][NormKey(CosineB(k), CosineLayer(k))] =
                      WholeNorm(WholeVector(CosineB(k)[1]))

\* What worker v passes to all_reduce for key k: its pre-reduced local value.
LocalContribution(v, k) == pre_reduce_metrics(order[v], collected[v])[k]

\* C11: with two or more workers running dist_reduce_metrics on records with
\* the same keys, in whatever order each record lists them, the n-th all_reduce
\* of every worker is for the same key, the value it returns is the sum of that
\* one key's local values, and no worker waits in an all_reduce while another
\* has returned.
C11_CollectivesMatchKeyByKey ==
    world_size > 1 =>
        /\ (\A w \in Workers : pc[w] = "all_reduce") =>
              \A w, v \in Workers : order[w][idx[w]] = order[v][idx[v]]
        /\ \A w \in Workers :
              (pc[w] = "post" /\ StartsWith(order[w][idx[w]], "l2_norm")) =>
                  reduced[w] =
                      SumSeq([v \in Workers |-> LocalContribution(v, order[w][idx[w]])],
                             world_size)
        /\ ~ \E w, v \in Workers : pc[w] = "all_reduce" /\ pc[v] = "done"

====
